---- MODULE Spec2Model ----
(***************************************************************************)
(* A model of simple-ai-gateway: the sliding-window rate limiter, the      *)
(* chat_completion handler (prompt selection, echo / backend dispatch,     *)
(* response envelope) and the generate_stream SSE generator, as they run   *)
(* on uvicorn's single asyncio event loop.  The first version of the       *)
(* handler, src/main.py, is modelled beside the packaged one.              *)
(*                                                                         *)
(* A Python str is a sequence of one-character strings; a decoded JSON     *)
(* value is a tagged record [t, s, n, items, fields].                      *)
(***************************************************************************)
EXTENDS Integers, Sequences, FiniteSets, TLC

(***************************************************************************)
(* Bounds of the model.                                                    *)
(***************************************************************************)
\* Requests handled concurrently (tasks alive on the event loop).
MaxSlots == 2
\* Clock advances in one behaviour.
MaxTicks == 2
\* Messages in one conversation.
MaxMsgs == 2
\* Identifiers uuid.uuid4() hands out in one behaviour.
MaxIds == 2
\* Clock advances in one behaviour with several clients.
MaxLulls == 1

Slots == 1..MaxSlots

(***************************************************************************)
(* Program constants.                                                      *)
(***************************************************************************)
RATE_LIMIT_WINDOW == 60
MAX_REQUESTS == 5

\* "Echo: "
ECHO_PREFIX == <<"E", "c", "h", "o", ":", " ">>
\* "Error calling backend: "
ERROR_PREFIX ==
  <<"E", "r", "r", "o", "r", " ", "c", "a", "l", "l", "i", "n", "g", " ",
    "b", "a", "c", "k", "e", "n", "d", ":", " ">>

(***************************************************************************)
(* Python strings.                                                         *)
(***************************************************************************)
Whitespace == {" ", "\t", "\n"}

\* str.strip() leaves nothing: the str is empty or all whitespace.
IsBlank(s) == \A k \in 1..Len(s) : s[k] \in Whitespace

RECURSIVE SplitFrom(_, _, _)
SplitFrom(s, k, cur) ==
  IF k > Len(s)
  THEN IF cur = <<>> THEN <<>> ELSE <<cur>>
  ELSE IF s[k] \in Whitespace
       THEN (IF cur = <<>> THEN <<>> ELSE <<cur>>) \o SplitFrom(s, k + 1, <<>>)
       ELSE SplitFrom(s, k + 1, Append(cur, s[k]))

SplitNeverEmpty(s) ==
  IF SplitFrom(s, 1, <<>>) = <<>> THEN << <<>> >> ELSE SplitFrom(s, 1, <<>>)
\* content.split(): the maximal runs of non-whitespace characters, in order.
Split(s) == SplitFrom(s, 1, <<>>)

IsPrefix(p, s) == Len(p) <= Len(s) /\ SubSeq(s, 1, Len(p)) = p

(***************************************************************************)
(* Decoded JSON values (what resp.json() returns).                         *)
(***************************************************************************)
JNull == [t |-> "null", s |-> <<>>, n |-> 0, items |-> <<>>, fields |-> <<>>]
JStr(s) == [t |-> "str", s |-> s, n |-> 0, items |-> <<>>, fields |-> <<>>]
JNum(n) == [t |-> "num", s |-> <<>>, n |-> n, items |-> <<>>, fields |-> <<>>]
JList(items) ==
  [t |-> "list", s |-> <<>>, n |-> 0, items |-> items, fields |-> <<>>]
\* An object is a sequence of <<key, value>> pairs with distinct keys.
JObj(fields) ==
  [t |-> "obj", s |-> <<>>, n |-> 0, items |-> <<>>, fields |-> fields]

HasKey(v, key) == \E k \in 1..Len(v.fields) : v.fields[k][1] = key
Field(v, key) ==
  v.fields[CHOOSE k \in 1..Len(v.fields) : v.fields[k][1] = key][2]

\* The outcome of an expression: a value, or the exception it raises.
Value(v) == [ok |-> TRUE, v |-> v, exc |-> "none"]
Raise(e) == [ok |-> FALSE, v |-> JNull, exc |-> e]

\* v[key] with a str key.
GetKey(v, key) ==
  CASE v.t = "obj" -> IF HasKey(v, key) THEN Value(Field(v, key))
                      ELSE Raise("KeyError")
    [] OTHER -> Raise("TypeError")

\* v[0].
GetFirst(v) ==
  CASE v.t = "list" -> IF Len(v.items) > 0 THEN Value(v.items[1])
                       ELSE Raise("IndexError")
    [] v.t = "str" -> IF Len(v.s) > 0 THEN Value(JStr(<<v.s[1]>>))
                      ELSE Raise("IndexError")
    [] v.t = "obj" -> Raise("KeyError")
    [] OTHER -> Raise("TypeError")

\* len(v).
PyLen(v) ==
  CASE v.t = "str" -> Value(JNum(Len(v.s)))
    [] v.t = "list" -> Value(JNum(Len(v.items)))
    [] v.t = "obj" -> Value(JNum(Len(v.fields)))
    [] OTHER -> Raise("TypeError")

(***************************************************************************)
(* The backend: requests.post(...), resp.json() and the subscripts of      *)
(* backend_data["choices"][0]["message"]["content"].                       *)
(***************************************************************************)
\* backend_data["choices"][0]["message"]["content"]: the first subscript
\* that raises ends the chain.
ExtractContent(backend_data) ==
  LET choices == GetKey(backend_data, "choices")
  IN  IF ~choices.ok THEN choices
      ELSE LET first == GetFirst(choices.v)
           IN  IF ~first.ok THEN first
               ELSE LET message == GetKey(first.v, "message")
                    IN  IF ~message.ok THEN message
                        ELSE GetKey(message.v, "content")

\* str(e): a diagnostic text for each exception class.
ExcText(e) ==
  CASE e = "Timeout" -> <<"t", "i", "m", "e", "d", " ", "o", "u", "t">>
    [] e = "ConnectionError" -> <<"r", "e", "f", "u", "s", "e", "d">>
    [] e = "JSONDecodeError" -> <<"E", "x", "p", "e", "c", "t", "i", "n", "g">>
    [] e = "KeyError" -> <<"'", "k", "'">>
    [] e = "IndexError" -> <<"r", "a", "n", "g", "e">>
    [] OTHER -> <<"n", "o", "t", " ", "s", "u", "b">>

\* The try/except around the backend call: `outcome` is what
\* requests.post(...) followed by resp.json() produced.
BackendReply(outcome) ==
  LET got == IF outcome.ok THEN ExtractContent(outcome.v) ELSE outcome
  IN  IF got.ok THEN got.v ELSE JStr(ERROR_PREFIX \o ExcText(got.exc))

EchoReplyBare(user_prompt) == JStr(user_prompt)
\* f"Echo: {user_prompt}"
EchoReply(user_prompt) == JStr(ECHO_PREFIX \o user_prompt)

\* {"choices": [{"message": {"content": c}}]}
BodyWithContent(c) ==
  JObj(<< <<"choices",
            JList(<< JObj(<< <<"message", JObj(<< <<"content", c>> >>)>> >>) >>)>> >>)

\* Texts a well-behaved backend answers with.
BackendTexts ==
  { <<"o", "k">>, <<" ", "x", " ", " ", "y", "\n">>, <<>>, <<" ">> }

\* Bodies with the text where the gateway looks for it.
GoodBodies == { BodyWithContent(JStr(s)) : s \in BackendTexts }

\* Bodies of another shape, or with a content that is no string.
BadBodies ==
  { JObj(<<>>),
    JObj(<< <<"error", JStr(<<"x">>)>> >>),
    JObj(<< <<"choices", JList(<<>>)>> >>),
    JObj(<< <<"choices", JNull>> >>),
    JObj(<< <<"choices", JStr(<<"a", "b">>)>> >>),
    JObj(<< <<"choices", JList(<< JObj(<<>>) >>)>> >>),
    JObj(<< <<"choices", JList(<< JObj(<< <<"message", JStr(<<"m">>)>> >>) >>)>> >>),
    JObj(<< <<"choices", JList(<< JObj(<< <<"message", JObj(<<>>)>> >>) >>)>> >>),
    JList(<<>>),
    BodyWithContent(JNull),
    BodyWithContent(JNum(7)),
    BodyWithContent(JList(<< JStr(<<"a">>) >>)),
    BodyWithContent(JObj(<<>>)) }

TransportFailures == {"Timeout", "ConnectionError", "JSONDecodeError"}

\* Everything the backend call can come back with.
BackendOutcomes ==
  { Raise(e) : e \in TransportFailures } \cup
  { Value(b) : b \in GoodBodies \cup BadBodies }

(***************************************************************************)
(* Requests.                                                               *)
(***************************************************************************)
Roles == {"system", "user", "assistant"}

\* The content of the k-th message of a conversation: k times "a", then
\* " b" at the even positions; no two positions share a content.
ContentAt(k) ==
  [j \in 1..k |-> "a"] \o (IF k % 2 = 0 THEN <<" ", "b">> ELSE <<>>)

Msg(role, content) == [role |-> role, content |-> content]

ValidMessagesAt(k) == { Msg(r, ContentAt(k)) : r \in Roles }

\* What the first version accepts as well: any role, any content.
LooseMessagesAt(k) ==
  ValidMessagesAt(k) \cup {Msg("user", <<>>), Msg("tool", ContentAt(k))}

MessagesAt(loose, k) == IF loose THEN LooseMessagesAt(k) ELSE ValidMessagesAt(k)

RECURSIVE SeqsOver(_, _)
\* The conversations m_1 .. m_len with m_k drawn from MessagesAt(loose, k).
SeqsOver(loose, len) ==
  IF len = 0 THEN {<<>>}
  ELSE { Append(c, m) : c \in SeqsOver(loose, len - 1),
                        m \in MessagesAt(loose, len) }

\* Message.content_not_empty and ChatRequest.messages_not_empty.
ValidMessage(m) == m.role \in Roles /\ ~IsBlank(m.content)
ValidRequest(req) ==
  /\ Len(req.messages) > 0
  /\ \A k \in 1..Len(req.messages) : ValidMessage(req.messages[k])

Conversations == UNION { SeqsOver(FALSE, len) : len \in 1..MaxMsgs }

LooseConversations == UNION { SeqsOver(TRUE, len) : len \in 0..MaxMsgs }

ChatRequests ==
  { [messages |-> c, stream |-> st] : c \in Conversations, st \in BOOLEAN }

LooseChatRequests ==
  { [messages |-> c, stream |-> FALSE] : c \in LooseConversations }

\* The X-Request-ID header: absent (None), or a str.
NoHeader == [present |-> FALSE, text |-> <<>>]
HeaderOf(text) == [present |-> TRUE, text |-> text]
Headers == {NoHeader, HeaderOf(<<>>), HeaderOf(<<"r", "1">>)}

Clients == {"10.0.0.1", "10.0.0.2"}

(***************************************************************************)
(* State.                                                                  *)
(***************************************************************************)
VARIABLES
  BACKEND_URL,      \* the configured endpoint; "" when unset or empty
  clock,            \* what time.time() returns now
  ticks,            \* clock advances so far
  request_history,  \* client_ip -> the recorded timestamps, oldest first
  uuid_count,       \* identifiers uuid.uuid4() has handed out
  task,             \* slot -> the request it handles: its position and locals
  admitted,         \* history: client_ip -> every timestamp ever admitted
  last_call,        \* history: client_ip -> the latest check: when (-1: none
                    \* yet) and whether it rejected
  issued            \* history: what uuid.uuid4() returned, call after call

vars ==
  <<BACKEND_URL, clock, ticks, request_history, uuid_count, task, admitted,
    last_call, issued>>

NoId == [kind |-> "none", text |-> <<>>, n |-> 0]
NoUsage == [prompt_tokens |-> 0, completion_tokens |-> 0, total_tokens |-> 0]
NoResponse ==
  [status |-> 0, detail |-> "", id |-> NoId, content |-> JNull,
   usage |-> NoUsage, streaming |-> FALSE]

\* A slot that handles no request.
IdleTask ==
  [pc |-> "idle", app |-> "none", client_ip |-> "",
   chat_req |-> [messages |-> <<>>, stream |-> FALSE],
   x_request_id |-> NoHeader, now |-> 0, gap |-> -1,
   after_rejection |-> FALSE, rejected |-> FALSE, req_id |-> NoId,
   user_prompt |-> <<>>, outcome |-> Raise("none"), reply_content |-> JNull,
   calls |-> 0,
   did |-> {}, words |-> <<>>, i |-> 0, emitted |-> <<>>, cut |-> -1,
   response |-> NoResponse]

Init ==
  /\ BACKEND_URL \in {"", "http://backend"}
  /\ clock = 0
  /\ ticks = 0
  /\ request_history = [c \in Clients |-> <<>>]
  /\ uuid_count = 0
  /\ issued = <<>>
  /\ task = [r \in Slots |-> IdleTask]
  /\ admitted = [c \in Clients |-> <<>>]
  /\ last_call = [c \in Clients |-> [at |-> -1, rejected |-> FALSE]]

(***************************************************************************)
(* Scheduling.  chat_completion is a coroutine on the one event loop and   *)
(* contains no await: from its first line to its return (or raise) no      *)
(* other task runs.  A generator runs from one suspension to the next.     *)
(***************************************************************************)
HandlerPcs ==
  {"rl_prune", "rl_test", "rl_append", "resolve_id", "select", "dispatch",
   "in_flight", "respond", "v1_select", "v1_dispatch", "v1_in_flight",
   "v1_respond"}

SuspendedPcs == {"stream_start", "at_yield", "at_sleep", "at_final", "at_sentinel"}

\* The event loop is free for slot r, or r is the task that runs on it.
ExclusiveUnsynchronised(r) == TRUE
Exclusive(r) == \A q \in Slots \ {r} : task[q].pc \notin HandlerPcs

\* A slot takes a new request when it has none, or is through with one;
\* slots are only names, so a new request takes the first free one.
Free(r) == task[r].pc \in {"idle", "done", "closed", "cancelled", "failed"}
FirstFree(r) == Free(r) /\ \A q \in 1..(r - 1) : ~Free(q)

\* What is left of a request when its handler has returned or raised: the
\* request (body and header) and the response; the locals of the handler
\* are gone.
Returned(t, response) ==
  [IdleTask EXCEPT !.pc = "done", !.app = t.app, !.chat_req = t.chat_req,
                   !.x_request_id = t.x_request_id,
                   !.rejected = t.rejected, !.calls = t.calls, !.did = t.did,
                   !.response = response]

Update(r, t) == task' = [task EXCEPT ![r] = t]

\* `x_request_id or ...` takes the right-hand side: None or "".
NeedsUuid(hdr) == ~hdr.present \/ hdr.text = <<>>

(***************************************************************************)
(* Time.                                                                   *)
(***************************************************************************)
TickSteps == {1, RATE_LIMIT_WINDOW - 1}

Tick(d) ==
  /\ ticks < MaxTicks
  /\ clock' = clock + d
  /\ ticks' = ticks + 1
  /\ UNCHANGED <<BACKEND_URL, request_history, uuid_count, task, admitted,
                 last_call, issued>>

(***************************************************************************)
(* check_rate_limit, a statement at a time.                                *)
(***************************************************************************)
InWindowInclusive(now, t) == now - t <= RATE_LIMIT_WINDOW
\* now - t < RATE_LIMIT_WINDOW
InWindow(now, t) == now - t < RATE_LIMIT_WINDOW

PruneKeepsAll(history, now) == history
\* [t for t in request_history[client_ip] if now - t < RATE_LIMIT_WINDOW]
Prune(history, now) == SelectSeq(history, LAMBDA t : InWindow(now, t))

AtCapacityOffByOne(history) == Len(history) > MAX_REQUESTS
\* len(request_history[client_ip]) >= MAX_REQUESTS
AtCapacity(history) == Len(history) >= MAX_REQUESTS

TooManyRequests ==
  [NoResponse EXCEPT !.status = 429, !.detail = "Too many requests"]

RejectReturnsTheException(t) == [t EXCEPT !.pc = "resolve_id", !.rejected = TRUE]
\* raise HTTPException(status_code=429, ...): the handler is left at once.
Reject(t) == Returned([t EXCEPT !.rejected = TRUE], TooManyRequests)

\* A request of client c arrives and passes the validators; its task is
\* ready to run.
Arrive(r, c, req, hdr) ==
  /\ FirstFree(r)
  /\ ValidRequest(req)
  /\ NeedsUuid(hdr) => uuid_count < MaxIds
  /\ Update(r, [IdleTask EXCEPT !.pc = "pending", !.app = "gateway",
                                !.client_ip = c, !.chat_req = req,
                                !.x_request_id = hdr])
  /\ UNCHANGED <<BACKEND_URL, clock, ticks, request_history, uuid_count,
                 admitted, last_call, issued>>

\* The event loop runs the task: the handler is entered.
Start(r) ==
  LET t == task[r]
  IN  /\ t.pc = "pending"
      /\ Exclusive(r)
      /\ Update(r, [t EXCEPT !.pc = IF t.app = "gateway" THEN "rl_prune"
                                    ELSE "v1_select"])
      /\ UNCHANGED <<BACKEND_URL, clock, ticks, request_history, uuid_count,
                     admitted, last_call, issued>>

RlPruneSkipped(r) ==
  LET t == task[r]
      c == t.client_ip
  IN  /\ t.pc = "rl_prune"
      /\ Exclusive(r)
      /\ last_call' = [last_call EXCEPT ![c].at = clock]
      /\ Update(r, [t EXCEPT !.pc = "rl_test", !.now = clock,
                             !.gap = IF last_call[c].at < 0 THEN -1
                                     ELSE clock - last_call[c].at,
                             !.after_rejection = last_call[c].rejected])
      /\ UNCHANGED <<BACKEND_URL, clock, ticks, request_history, uuid_count,
                     admitted, issued>>
\* now = time.time(); the history of the client is pruned.
RlPrune(r) ==
  LET t == task[r]
      c == t.client_ip
  IN  /\ t.pc = "rl_prune"
      /\ Exclusive(r)
      /\ request_history' =
           [request_history EXCEPT ![c] = Prune(request_history[c], clock)]
      /\ last_call' = [last_call EXCEPT ![c].at = clock]
      /\ Update(r, [t EXCEPT !.pc = "rl_test", !.now = clock,
                             !.gap = IF last_call[c].at < 0 THEN -1
                                     ELSE clock - last_call[c].at,
                             !.after_rejection = last_call[c].rejected])
      /\ UNCHANGED <<BACKEND_URL, clock, ticks, uuid_count, admitted, issued>>

RlTestRecordsRejected(r) ==
  LET t == task[r]
      c == t.client_ip
  IN  /\ t.pc = "rl_test"
      /\ Exclusive(r)
      /\ IF AtCapacity(request_history[c])
         THEN /\ Update(r, Reject(t))
              /\ last_call' = [last_call EXCEPT ![c].rejected = TRUE]
              /\ request_history' =
                   [request_history EXCEPT ![c] = Append(request_history[c], t.now)]
         ELSE /\ Update(r, [t EXCEPT !.pc = "rl_append"])
              /\ last_call' = [last_call EXCEPT ![c].rejected = FALSE]
              /\ UNCHANGED request_history
      /\ UNCHANGED <<BACKEND_URL, clock, ticks, uuid_count, admitted, issued>>
\* The capacity test: HTTPException(429) leaves the handler.
RlTest(r) ==
  LET t == task[r]
  IN  /\ t.pc = "rl_test"
      /\ Exclusive(r)
      /\ IF AtCapacity(request_history[t.client_ip])
         THEN /\ Update(r, Reject(t))
              /\ last_call' = [last_call EXCEPT ![t.client_ip].rejected = TRUE]
         ELSE /\ Update(r, [t EXCEPT !.pc = "rl_append"])
              /\ last_call' = [last_call EXCEPT ![t.client_ip].rejected = FALSE]
      /\ UNCHANGED <<BACKEND_URL, clock, ticks, request_history, uuid_count,
                     admitted, issued>>

RlAppendToEveryHistory(r) ==
  LET t == task[r]
      c == t.client_ip
  IN  /\ t.pc = "rl_append"
      /\ Exclusive(r)
      /\ request_history' =
           [k \in Clients |-> Append(request_history[k], t.now)]
      /\ admitted' = [admitted EXCEPT ![c] = Append(admitted[c], t.now)]
      /\ Update(r, [t EXCEPT !.pc = "resolve_id", !.did = t.did \cup {"admit"}])
      /\ UNCHANGED <<BACKEND_URL, clock, ticks, uuid_count, last_call, issued>>
\* request_history[client_ip].append(now)
RlAppend(r) ==
  LET t == task[r]
      c == t.client_ip
  IN  /\ t.pc = "rl_append"
      /\ Exclusive(r)
      /\ request_history' =
           [request_history EXCEPT ![c] = Append(request_history[c], t.now)]
      /\ admitted' = [admitted EXCEPT ![c] = Append(admitted[c], t.now)]
      /\ Update(r, [t EXCEPT !.pc = "resolve_id", !.did = t.did \cup {"admit"}])
      /\ UNCHANGED <<BACKEND_URL, clock, ticks, uuid_count, last_call, issued>>

(***************************************************************************)
(* chat_completion after admission.                                        *)
(***************************************************************************)
HeaderId(hdr) == [kind |-> "header", text |-> hdr.text, n |-> 0]
UuidIdFixed(n) == [kind |-> "uuid", text |-> <<>>, n |-> 1]
\* str(uuid.uuid4()), the n-th call of it: no two calls return the same.
UuidId(n) == [kind |-> "uuid", text |-> <<>>, n |-> n]

\* req_id = x_request_id or str(uuid.uuid4())
ResolveId(r) ==
  LET t == task[r]
  IN  /\ t.pc = "resolve_id"
      /\ Exclusive(r)
      /\ IF NeedsUuid(t.x_request_id)
         THEN /\ uuid_count' = uuid_count + 1
              /\ issued' = Append(issued, UuidId(uuid_count + 1))
              /\ Update(r, [t EXCEPT !.pc = "select",
                                     !.req_id = UuidId(uuid_count + 1)])
         ELSE /\ UNCHANGED <<uuid_count, issued>>
              /\ Update(r, [t EXCEPT !.pc = "select",
                                     !.req_id = HeaderId(t.x_request_id)])
      /\ UNCHANGED <<BACKEND_URL, clock, ticks, request_history, admitted,
                     last_call>>

RECURSIVE ScanForward(_, _)
ScanForward(messages, k) ==
  IF k > Len(messages) THEN <<>>
  ELSE IF messages[k].role = "user" THEN messages[k].content
       ELSE ScanForward(messages, k + 1)

RECURSIVE ScanBack(_, _)
\* for msg in reversed(messages): the first user message met, from index k down.
ScanBack(messages, k) ==
  IF k = 0 THEN <<>>
  ELSE IF messages[k].role = "user" THEN messages[k].content
       ELSE ScanBack(messages, k - 1)

SelectPromptFirst(messages) == ScanForward(messages, 1)
\* user_prompt after the loop; "" when no message has the user role.
SelectPrompt(messages) == ScanBack(messages, Len(messages))

NoUserMessage ==
  [NoResponse EXCEPT !.status = 400, !.detail = "No user message found"]

SelectRefundsInvalid(r) ==
  LET t == task[r]
      c == t.client_ip
      prompt == SelectPrompt(t.chat_req.messages)
  IN  /\ t.pc = "select"
      /\ Exclusive(r)
      /\ IF prompt = <<>>
         THEN /\ Update(r, Returned([t EXCEPT !.did = t.did \cup {"select"}],
                                     NoUserMessage))
              /\ request_history' =
                   [request_history EXCEPT
                      ![c] = SubSeq(request_history[c], 1,
                                    Len(request_history[c]) - 1)]
         ELSE /\ Update(r, [t EXCEPT !.pc = "dispatch", !.user_prompt = prompt,
                                     !.did = t.did \cup {"select"}])
              /\ UNCHANGED request_history
      /\ UNCHANGED <<BACKEND_URL, clock, ticks, uuid_count, admitted, last_call,
                     issued>>
\* The prompt is selected; HTTPException(400) when it is empty.
Select(r) ==
  LET t == task[r]
      prompt == SelectPrompt(t.chat_req.messages)
  IN  /\ t.pc = "select"
      /\ Exclusive(r)
      /\ IF prompt = <<>>
         THEN Update(r, Returned([t EXCEPT !.did = t.did \cup {"select"}],
                                  NoUserMessage))
         ELSE Update(r, [t EXCEPT !.pc = "dispatch", !.user_prompt = prompt,
                                  !.did = t.did \cup {"select"}])
      /\ UNCHANGED <<BACKEND_URL, clock, ticks, request_history, uuid_count,
                     admitted, last_call, issued>>

\* if not BACKEND_URL: the echo reply; else requests.post(...) is under way.
Dispatch(r) ==
  LET t == task[r]
  IN  /\ t.pc = "dispatch"
      /\ Exclusive(r)
      /\ IF BACKEND_URL = ""
         THEN Update(r, [t EXCEPT !.pc = "respond",
                                  !.reply_content = EchoReply(t.user_prompt),
                                  !.did = t.did \cup {"reply"}])
         ELSE Update(r, [t EXCEPT !.pc = "in_flight", !.calls = t.calls + 1])
      /\ UNCHANGED <<BACKEND_URL, clock, ticks, request_history, uuid_count,
                     admitted, last_call, issued>>

\* The call is over (within its 10 s): the content, or the error text.
BackendReturns(r, outcome) ==
  LET t == task[r]
  IN  /\ t.pc = "in_flight"
      /\ Exclusive(r)
      /\ Update(r, [t EXCEPT !.pc = "respond", !.outcome = outcome,
                             !.reply_content = BackendReply(outcome),
                             !.did = t.did \cup {"reply"}])
      /\ UNCHANGED <<BACKEND_URL, clock, ticks, request_history, uuid_count,
                     admitted, last_call, issued>>

EnvelopeCountsReplyOnly(req_id, user_prompt, reply_content) ==
  LET n == PyLen(reply_content)
  IN  IF n.ok
      THEN [NoResponse EXCEPT
              !.status = 200, !.id = req_id, !.content = reply_content,
              !.usage = [prompt_tokens |-> Len(user_prompt),
                         completion_tokens |-> n.v.n,
                         total_tokens |-> n.v.n]]
      ELSE [NoResponse EXCEPT !.status = 500, !.detail = n.exc]
\* The dict the handler returns; len() of something without a length raises.
Envelope(req_id, user_prompt, reply_content) ==
  LET n == PyLen(reply_content)
  IN  IF n.ok
      THEN [NoResponse EXCEPT
              !.status = 200, !.id = req_id, !.content = reply_content,
              !.usage = [prompt_tokens |-> Len(user_prompt),
                         completion_tokens |-> n.v.n,
                         total_tokens |-> Len(user_prompt) + n.v.n]]
      ELSE [NoResponse EXCEPT !.status = 500, !.detail = n.exc]

\* StreamingResponse(generate_stream(req_id, reply_content), ...)
StreamingResponse(req_id) ==
  [NoResponse EXCEPT !.status = 200, !.id = req_id, !.streaming = TRUE]

\* The handler returns: the stream, not yet started, or the envelope.
Respond(r) ==
  LET t == task[r]
  IN  /\ t.pc = "respond"
      /\ Exclusive(r)
      /\ IF t.chat_req.stream
         THEN Update(r, [t EXCEPT !.pc = "stream_start",
                                  !.did = t.did \cup {"stream"},
                                  !.response = StreamingResponse(t.req_id)])
         ELSE Update(r, Returned([t EXCEPT !.did = t.did \cup {"envelope"}],
                                  Envelope(t.req_id, t.user_prompt,
                                           t.reply_content)))
      /\ UNCHANGED <<BACKEND_URL, clock, ticks, request_history, uuid_count,
                     admitted, last_call, issued>>

(***************************************************************************)
(* generate_stream: the events it yields, and its suspension points.       *)
(***************************************************************************)
ASSISTANT == <<"a", "s", "s", "i", "s", "t", "a", "n", "t">>

DeltaAlwaysRole(i, word) ==
  JObj(<< <<"role", JStr(ASSISTANT)>>, <<"content", JStr(word \o <<" ">>)>> >>)
\* The delta of the chunk of words[i], i counted from 0 as enumerate does.
Delta(i, word) ==
  IF i = 0
  THEN JObj(<< <<"role", JStr(ASSISTANT)>>,
               <<"content", JStr(word \o <<" ">>)>> >>)
  ELSE JObj(<< <<"content", JStr(word \o <<" ">>)>> >>)

ChunkUnderOneId(req_id, delta, finish_reason) ==
  [kind |-> "chunk", id |-> HeaderId(HeaderOf(<<"r", "1">>)), index |-> 0,
   delta |-> delta, finish_reason |-> finish_reason]
\* f"data: {json.dumps(chunk)}\n\n", one whole event.
Chunk(req_id, delta, finish_reason) ==
  [kind |-> "chunk", id |-> req_id, index |-> 0, delta |-> delta,
   finish_reason |-> finish_reason]

FinalChunk(req_id) == Chunk(req_id, JObj(<<>>), "stop")

\* "data: [DONE]\n\n"
DoneSentinel ==
  [kind |-> "done", id |-> NoId, index |-> 0, delta |-> JObj(<<>>),
   finish_reason |-> "null"]

\* The generator runs on to its next yield: the next word's chunk, or the
\* final chunk when the loop is over.
NextYield(t) ==
  IF t.i < Len(t.words)
  THEN [t EXCEPT !.pc = "at_yield", !.i = t.i + 1,
                 !.emitted = Append(t.emitted,
                                    Chunk(t.req_id, Delta(t.i, t.words[t.i + 1]),
                                          "null"))]
  ELSE [t EXCEPT !.pc = "at_final",
                 !.emitted = Append(t.emitted, FinalChunk(t.req_id))]

\* The first resumption: words = content.split(), then the first yield.
\* A content without split() (not a str) raises: the stream breaks off.
StreamFirst(r) ==
  LET t == task[r]
  IN  /\ t.pc = "stream_start"
      /\ Exclusive(r)
      /\ IF t.reply_content.t = "str"
         THEN Update(r, NextYield([t EXCEPT !.words = Split(t.reply_content.s)]))
         ELSE Update(r, [t EXCEPT !.pc = "failed"])
      /\ UNCHANGED <<BACKEND_URL, clock, ticks, request_history, uuid_count,
                     admitted, last_call, issued>>

\* Resumed after the yield of a word's chunk: await asyncio.sleep(0.05).
StreamSleep(r) ==
  LET t == task[r]
  IN  /\ t.pc = "at_yield"
      /\ Exclusive(r)
      /\ Update(r, [t EXCEPT !.pc = "at_sleep"])
      /\ UNCHANGED <<BACKEND_URL, clock, ticks, request_history, uuid_count,
                     admitted, last_call, issued>>

\* The sleep is over: the next iteration, or the final chunk.
StreamNext(r) ==
  LET t == task[r]
  IN  /\ t.pc = "at_sleep"
      /\ Exclusive(r)
      /\ Update(r, NextYield(t))
      /\ UNCHANGED <<BACKEND_URL, clock, ticks, request_history, uuid_count,
                     admitted, last_call, issued>>

\* Resumed after the final chunk: yield "data: [DONE]\n\n".
StreamSentinel(r) ==
  LET t == task[r]
  IN  /\ t.pc = "at_final"
      /\ Exclusive(r)
      /\ Update(r, [t EXCEPT !.pc = "at_sentinel",
                             !.emitted = Append(t.emitted, DoneSentinel)])
      /\ UNCHANGED <<BACKEND_URL, clock, ticks, request_history, uuid_count,
                     admitted, last_call, issued>>

\* Resumed after the sentinel: the generator returns.
StreamClose(r) ==
  LET t == task[r]
  IN  /\ t.pc = "at_sentinel"
      /\ Exclusive(r)
      /\ Update(r, [t EXCEPT !.pc = "closed"])
      /\ UNCHANGED <<BACKEND_URL, clock, ticks, request_history, uuid_count,
                     admitted, last_call, issued>>

CancelledShielded(t) == t
\* The exception thrown into the suspended generator ends it: the generator
\* has no try block, so no statement of it runs any more.
Cancelled(t) == [t EXCEPT !.pc = "cancelled"]

\* The consumer disconnects while the generator is suspended; `cut` notes
\* how many events it had been sent.
Disconnect(r) ==
  LET t == task[r]
  IN  /\ t.pc \in SuspendedPcs
      /\ t.cut < 0
      /\ Exclusive(r)
      /\ Update(r, Cancelled([t EXCEPT !.cut = Len(t.emitted)]))
      /\ UNCHANGED <<BACKEND_URL, clock, ticks, request_history, uuid_count,
                     admitted, last_call, issued>>

(***************************************************************************)
(* The first version of the handler (src/main.py): no admission control,   *)
(* no validators, no streaming.                                            *)
(***************************************************************************)
V1Arrive(r, req, hdr) ==
  /\ FirstFree(r)
  /\ NeedsUuid(hdr) => uuid_count < MaxIds
  /\ Update(r, [IdleTask EXCEPT !.pc = "pending", !.app = "v1",
                                !.chat_req = req, !.x_request_id = hdr])
  /\ UNCHANGED <<BACKEND_URL, clock, ticks, request_history, uuid_count,
                 admitted, last_call, issued>>

\* req_id, then the prompt: it stays "" when there is no user message.
V1Select(r) ==
  LET t == task[r]
      picked == [t EXCEPT !.pc = "v1_dispatch",
                          !.user_prompt = SelectPrompt(t.chat_req.messages),
                          !.did = t.did \cup {"select"}]
  IN  /\ t.pc = "v1_select"
      /\ Exclusive(r)
      /\ IF NeedsUuid(t.x_request_id)
         THEN /\ uuid_count' = uuid_count + 1
              /\ issued' = Append(issued, UuidId(uuid_count + 1))
              /\ Update(r, [picked EXCEPT !.req_id = UuidId(uuid_count + 1)])
         ELSE /\ UNCHANGED <<uuid_count, issued>>
              /\ Update(r, [picked EXCEPT !.req_id = HeaderId(t.x_request_id)])
      /\ UNCHANGED <<BACKEND_URL, clock, ticks, request_history, admitted,
                     last_call>>

V1Dispatch(r) ==
  LET t == task[r]
  IN  /\ t.pc = "v1_dispatch"
      /\ Exclusive(r)
      /\ IF BACKEND_URL = ""
         THEN Update(r, [t EXCEPT !.pc = "v1_respond",
                                  !.reply_content = EchoReply(t.user_prompt),
                                  !.did = t.did \cup {"reply"}])
         ELSE Update(r, [t EXCEPT !.pc = "v1_in_flight", !.calls = t.calls + 1])
      /\ UNCHANGED <<BACKEND_URL, clock, ticks, request_history, uuid_count,
                     admitted, last_call, issued>>

V1BackendReturns(r, outcome) ==
  LET t == task[r]
  IN  /\ t.pc = "v1_in_flight"
      /\ Exclusive(r)
      /\ Update(r, [t EXCEPT !.pc = "v1_respond", !.outcome = outcome,
                             !.reply_content = BackendReply(outcome),
                             !.did = t.did \cup {"reply"}])
      /\ UNCHANGED <<BACKEND_URL, clock, ticks, request_history, uuid_count,
                     admitted, last_call, issued>>

V1Respond(r) ==
  LET t == task[r]
  IN  /\ t.pc = "v1_respond"
      /\ Exclusive(r)
      /\ Update(r, Returned([t EXCEPT !.did = t.did \cup {"envelope"}],
                             Envelope(t.req_id, t.user_prompt, t.reply_content)))
      /\ UNCHANGED <<BACKEND_URL, clock, ticks, request_history, uuid_count,
                     admitted, last_call, issued>>

(***************************************************************************)
(* Specifications.                                                         *)
(***************************************************************************)
\* The steps of a request once it has begun, with the backend's answers.
Handle(r) ==
  \/ Start(r)
  \/ RlPrune(r)
  \/ RlTest(r)
  \/ RlAppend(r)
  \/ ResolveId(r)
  \/ Select(r)
  \/ Dispatch(r)
  \/ Respond(r)

Stream(r) ==
  \/ StreamFirst(r)
  \/ StreamSleep(r)
  \/ StreamNext(r)
  \/ StreamSentinel(r)
  \/ StreamClose(r)
  \/ Disconnect(r)

V1Handle(r) ==
  \/ V1Select(r)
  \/ V1Dispatch(r)
  \/ V1Respond(r)

\* One request after another from one client, within one instant: every
\* conversation, every answer of the backend, streamed or not.
GatewayClient == CHOOSE c \in Clients : TRUE
GatewayHeader == HeaderOf(<<"r", "1">>)

Next ==
  \/ \E req \in ChatRequests : Arrive(1, GatewayClient, req, GatewayHeader)
  \/ \E req \in LooseChatRequests : V1Arrive(1, req, GatewayHeader)
  \/ \E outcome \in BackendOutcomes :
       BackendReturns(1, outcome) \/ V1BackendReturns(1, outcome)
  \/ Handle(1)
  \/ Stream(1)
  \/ V1Handle(1)

Spec == Init /\ [][Next]_vars

\* The rate limiter under load: every client, concurrent requests, the
\* clock advancing; the requests are plain ones and there is no backend.
PlainRequests == { [messages |-> <<Msg("user", ContentAt(1))>>, stream |-> FALSE] }

InitLimiter == Init /\ BACKEND_URL = ""

NextLimiter ==
  \/ \E d \in TickSteps : Tick(d)
  \/ \E r \in Slots, req \in PlainRequests :
       Arrive(r, GatewayClient, req, GatewayHeader)
  \/ \E r \in Slots : Handle(r)

SpecLimiter == InitLimiter /\ [][NextLimiter]_vars

(***************************************************************************)
(* The rate limiter.                                                       *)
(***************************************************************************)
\* How many of the admitted calls of client c lie in the window that ends
\* at `now`: the calls less than RATE_LIMIT_WINDOW seconds old.
AdmittedWithin(c, now) ==
  Cardinality({ k \in DOMAIN admitted[c] :
                  now - admitted[c][k] < RATE_LIMIT_WINDOW })

\* Slot r leaves the capacity test of check_rate_limit in this step.
Decides(r) == task[r].pc = "rl_test" /\ task'[r].pc # "rl_test"
AdmittedNow(r) == task'[r].pc = "rl_append"
RejectedNow(r) == task'[r].pc = "done" /\ task'[r].response.status = 429

\* C1: with the clock never running backwards, a call is admitted when
\* fewer than MAX_REQUESTS of the client's admitted calls lie in the window
\* that ends at the call, and rejected with 429 otherwise (the sixth call
\* inside one window); calls at one and the same instant count one each,
\* and the first call of a client is admitted.
C1_SlidingWindowAdmission ==
  [][\A r \in Slots :
       Decides(r) =>
         LET c == task[r].client_ip
             seen == AdmittedWithin(c, task[r].now)
         IN  /\ seen < MAX_REQUESTS => AdmittedNow(r)
             /\ seen >= MAX_REQUESTS => RejectedNow(r)
             /\ admitted[c] = <<>> => AdmittedNow(r)]_vars

\* The sixth call of one instant has been rejected.
C1_Witness ==
  \E r \in Slots :
    /\ task[r].response.status = 429
    /\ clock = 0
    /\ admitted[GatewayClient] = [k \in 1..MAX_REQUESTS |-> 0]

\* C2: a call that comes RATE_LIMIT_WINDOW seconds or more after the
\* client's previous call is admitted, whatever the history was: the prune
\* has emptied it before the capacity test.
C2_AdmittedAfterIdleWindow ==
  [][\A r \in Slots :
       (Decides(r) /\ task[r].gap >= RATE_LIMIT_WINDOW) =>
         /\ request_history[task[r].client_ip] = <<>>
         /\ AdmittedNow(r)]_vars

\* A call is admitted exactly one window after a rejected call, the
\* client having used its whole capacity before.
C2_Witness ==
  \E r \in Slots :
    /\ task[r].pc = "rl_append"
    /\ task[r].gap = RATE_LIMIT_WINDOW
    /\ task[r].after_rejection
    /\ Len(admitted[task[r].client_ip]) = MAX_REQUESTS

\* The tasks that are inside check_rate_limit for client c.
InsideLimiter(c) ==
  { r \in Slots : task[r].pc \in {"rl_prune", "rl_test", "rl_append"}
                  /\ task[r].client_ip = c }

\* C3: however the requests of one client race, at most one of them is
\* inside check_rate_limit at a time, and no window of RATE_LIMIT_WINDOW
\* seconds ever holds more than MAX_REQUESTS admitted timestamps.
C3_AtomicAdmission ==
  \A c \in Clients :
    /\ Cardinality(InsideLimiter(c)) <= 1
    /\ \A k \in DOMAIN admitted[c] :
         Cardinality({ j \in DOMAIN admitted[c] :
                         /\ admitted[c][j] >= admitted[c][k]
                         /\ admitted[c][j] - admitted[c][k] < RATE_LIMIT_WINDOW })
           <= MAX_REQUESTS

\* One request has seen the last free place and not yet recorded itself,
\* while another request of the same client is ready to run.
C3_Witness ==
  \E r, q \in Slots :
    /\ r # q
    /\ task[r].pc = "rl_append"
    /\ Len(request_history[task[r].client_ip]) = MAX_REQUESTS - 1
    /\ task[q].pc = "pending"
    /\ task[q].client_ip = task[r].client_ip

(***************************************************************************)
(* The handler.                                                            *)
(***************************************************************************)
UserIndexes(messages) ==
  { k \in 1..Len(messages) : messages[k].role = "user" }

HasUser(messages) == UserIndexes(messages) # {}

\* The content of the user message that no user message follows.
LastUserContent(messages) ==
  messages[CHOOSE k \in UserIndexes(messages) :
             \A j \in UserIndexes(messages) : j <= k].content

\* The handler of slot r is past the backend call and has the reply.
HasReply(t) == "reply" \in t.did /\ t.pc # "done"

\* The text at choices[0].message.content of a body, where it has one.
TextAtContent(outcome, text) ==
  /\ outcome.ok
  /\ outcome.v.t = "obj" /\ HasKey(outcome.v, "choices")
  /\ LET choices == Field(outcome.v, "choices")
     IN  /\ choices.t = "list" /\ Len(choices.items) > 0
         /\ LET first == choices.items[1]
            IN  /\ first.t = "obj" /\ HasKey(first, "message")
                /\ LET message == Field(first, "message")
                   IN  /\ message.t = "obj" /\ HasKey(message, "content")
                       /\ Field(message, "content") = text

\* C4: whatever the backend call comes back with, the backend is called
\* once, the request completes with status 200 (or as a stream that does
\* not break off), and the content is a string: the text at
\* choices[0].message.content, or a text that begins with
\* "Error calling backend: ".
C4_BackendFailureAbsorbed ==
  \A r \in Slots :
    LET t == task[r]
    IN  /\ t.calls <= 1
        /\ t.pc # "failed"
        /\ (t.calls = 1 /\ t.pc = "done") =>
             (t.response.status = 200 /\ t.response.content.t = "str")
        /\ (t.calls = 1 /\ HasReply(t)) =>
             /\ t.reply_content.t = "str"
             /\ \/ IsPrefix(ERROR_PREFIX, t.reply_content.s)
                \/ TextAtContent(t.outcome, t.reply_content)

\* C5: a conversation without a user message is answered with 400
\* "No user message found" as soon as the prompt has been looked for: no
\* backend call, no reply, with or without a backend.
C5_NoUserMessageIsInvalid ==
  \A r \in Slots :
    LET t == task[r]
    IN  ("select" \in t.did /\ ~HasUser(t.chat_req.messages)) =>
          /\ t.pc = "done"
          /\ t.response.status = 400
          /\ t.response.detail = "No user message found"
          /\ t.calls = 0
          /\ "reply" \notin t.did

TokenStarts(s) ==
  { k \in 1..Len(s) : s[k] \notin Whitespace
                      /\ (k = 1 \/ s[k - 1] \in Whitespace) }

\* The n-th whitespace-delimited token of s.
Token(s, n) ==
  LET first == CHOOSE p \in TokenStarts(s) :
                 Cardinality({ x \in TokenStarts(s) : x <= p }) = n
      last == CHOOSE q \in first..Len(s) :
                /\ \A j \in first..q : s[j] \notin Whitespace
                /\ q = Len(s) \/ s[q + 1] \in Whitespace
  IN  SubSeq(s, first, last)

TokenCount(s) == Cardinality(TokenStarts(s))

\* The events of a whole stream for request id `id` and content s.
ExpectedStream(id, s) ==
  LET k == TokenCount(s)
      text(n) == <<"content", JStr(Token(s, n) \o <<" ">>)>>
  IN  [n \in 1..(k + 2) |->
         IF n = 1 /\ k >= 1
           THEN [kind |-> "chunk", id |-> id, index |-> 0,
                 delta |-> JObj(<< <<"role", JStr(ASSISTANT)>>, text(1) >>),
                 finish_reason |-> "null"]
         ELSE IF n <= k
           THEN [kind |-> "chunk", id |-> id, index |-> 0,
                 delta |-> JObj(<< text(n) >>), finish_reason |-> "null"]
         ELSE IF n = k + 1
           THEN [kind |-> "chunk", id |-> id, index |-> 0,
                 delta |-> JObj(<<>>), finish_reason |-> "stop"]
         ELSE DoneSentinel]

\* A stream of slot r over a str content that the consumer has not left.
Streams(t) ==
  /\ t.response.streaming
  /\ t.reply_content.t = "str"
  /\ t.cut < 0

\* C7: over a content of k >= 1 tokens the stream is, in this order, the
\* chunk of token 1 with the role, the chunks of tokens 2..k without it
\* (each token followed by one space, finish_reason null), the chunk with
\* the empty delta and finish_reason "stop", and [DONE]: what has been
\* sent is always a beginning of that sequence, it is the whole sequence
\* once [DONE] is sent, and nothing follows.
C7_StreamSequence ==
  \A r \in Slots :
    LET t == task[r]
        whole == ExpectedStream(t.req_id, t.reply_content.s)
    IN  (Streams(t) /\ TokenCount(t.reply_content.s) >= 1) =>
          /\ Len(t.emitted) <= Len(whole)
          /\ t.emitted = SubSeq(whole, 1, Len(t.emitted))
          /\ t.pc = "stream_start" => t.emitted = <<>>
          /\ t.pc = "at_final" => Len(t.emitted) = Len(whole) - 1
          /\ t.pc \in {"at_sentinel", "closed"} => t.emitted = whole

\* A stream over two tokens has ended: three data events, then [DONE].
C7_Witness ==
  \E r \in Slots :
    LET t == task[r]
    IN  /\ Streams(t)
        /\ t.pc = "closed"
        /\ TokenCount(t.reply_content.s) = 2
        /\ Len(t.emitted) = 4
        /\ t.emitted[4] = DoneSentinel

\* A whole event of the stream of request id `id`.
CompleteEvent(e, id) ==
  \/ e = DoneSentinel
  \/ /\ e.kind = "chunk"
     /\ e.id = id
     /\ e.finish_reason \in {"null", "stop"}
     /\ e.delta.t = "obj"

\* C8: when the consumer disconnects from a suspended generator, what it
\* has been sent are whole events only, the disconnection changes neither
\* the rate-limit history nor any other task, and from then on the stream
\* of that request gets no further event: no chunk, no final chunk, no
\* [DONE].
C8_CancelledStreamStops ==
  [][\A r \in Slots :
       LET t == task[r]
           u == task'[r]
       IN  /\ (t.cut < 0 /\ u.cut >= 0) =>
                /\ t.pc \in SuspendedPcs
                /\ u.cut = Len(t.emitted)
                /\ u.emitted = t.emitted
                /\ \A k \in 1..Len(t.emitted) :
                     CompleteEvent(t.emitted[k], t.req_id)
                /\ request_history' = request_history
                /\ admitted' = admitted
                /\ \A q \in Slots \ {r} : task'[q] = task[q]
           /\ (t.cut >= 0 /\ u.cut >= 0) => u.emitted = t.emitted]_vars

\* The consumer left after the first chunk of a longer stream.
C8_Witness ==
  \E r \in Slots :
    LET t == task[r]
    IN  /\ t.cut = 1
        /\ Len(t.emitted) = 1
        /\ Len(t.words) >= 2
        /\ t.pc = "cancelled"

\* C9: a request that the rate limiter rejects is over with the 429: no
\* prompt is selected, no backend called, no reply or envelope built and
\* no event streamed, whether it asked for a stream or not.
C9_RejectedShortCircuits ==
  \A r \in Slots :
    LET t == task[r]
    IN  t.rejected =>
          /\ t.pc = "done"
          /\ t.response = TooManyRequests
          /\ t.did = {}
          /\ t.calls = 0
          /\ t.emitted = <<>>

\* A request that asked for a stream has been rejected.
C9_Witness ==
  \E r \in Slots :
    /\ task[r].rejected
    /\ task[r].chat_req.stream
    /\ task[r].response.status = 429

\* C10: without a backend endpoint, a request with a user message gets
\* the reply "Echo: " followed by the content of its last user message,
\* in the handler and in the envelope, and the backend is never called.
C10_EchoReply ==
  BACKEND_URL = "" =>
    \A r \in Slots :
      LET t == task[r]
          echo == JStr(<<"E", "c", "h", "o", ":", " ">>
                       \o LastUserContent(t.chat_req.messages))
      IN  /\ t.calls = 0
          /\ HasUser(t.chat_req.messages) =>
               /\ HasReply(t) => t.reply_content = echo
               /\ (t.pc = "done" /\ t.response.status = 200) =>
                    t.response.content = echo

\* The envelope of an echoed request has been returned.
C10_Witness ==
  \E r \in Slots :
    LET t == task[r]
    IN  /\ BACKEND_URL = ""
        /\ t.pc = "done"
        /\ t.response.status = 200
        /\ HasUser(t.chat_req.messages)
        /\ t.response.content.s = ECHO_PREFIX \o LastUserContent(t.chat_req.messages)

(***************************************************************************)
(* The request identifier.                                                 *)
(***************************************************************************)
\* One request after another, with the X-Request-ID header absent, empty
\* or set, answered whole or as a stream, by either version of the handler.
IdRequests ==
  { [messages |-> <<Msg("user", ContentAt(1))>>, stream |-> s] : s \in BOOLEAN }

InitIds == Init /\ BACKEND_URL = ""

NextIds ==
  \/ \E req \in IdRequests, hdr \in Headers :
       Arrive(1, GatewayClient, req, hdr)
  \/ \E req \in IdRequests, hdr \in Headers : V1Arrive(1, req, hdr)
  \/ Handle(1)
  \/ Stream(1)
  \/ V1Handle(1)

SpecIds == InitIds /\ [][NextIds]_vars

\* The request of slot r has got its identifier into a response.
Identified(t) == t.response.status = 200

\* C11: a request that carries a non-empty X-Request-ID is answered under
\* exactly that text: it is the id of the response and of every chunk of a
\* streamed one.  A request without the header, or with an empty one, is
\* answered under an identifier uuid4 generated for it, and no two
\* identifiers generated in one behaviour are the same.
C11_CorrelationId ==
  /\ \A m, n \in 1..Len(issued) : m # n => issued[m] # issued[n]
  /\ \A r \in Slots :
       LET t == task[r]
           hdr == t.x_request_id
       IN  Identified(t) =>
             /\ IF hdr.present /\ hdr.text # <<>>
                THEN t.response.id.kind = "header" /\ t.response.id.text = hdr.text
                ELSE /\ t.response.id.kind = "uuid"
                     /\ t.response.id = issued[Len(issued)]
             /\ \A n \in 1..Len(t.emitted) :
                  t.emitted[n].kind = "chunk" => t.emitted[n].id = t.response.id

\* Two identifiers have been generated, and the stream of a request with
\* an empty header has sent chunks under the second.
C11_Witness ==
  /\ Len(issued) = 2
  /\ \E r \in Slots :
       LET t == task[r]
       IN  /\ Identified(t)
           /\ t.x_request_id = HeaderOf(<<>>)
           /\ t.response.id = issued[2]
           /\ Len(t.emitted) >= 2

(***************************************************************************)
(* The usage counters.                                                     *)
(***************************************************************************)
\* A request answered with the envelope.
Enveloped(t) ==
  t.pc = "done" /\ t.response.status = 200 /\ ~t.response.streaming

\* C12: in every envelope prompt_tokens is the number of characters of the
\* content of the last user message (0 when the first version found none),
\* whatever else the conversation holds and whether or not all of it went to
\* a backend; completion_tokens is the length of the reply content; and
\* total_tokens is their sum.
C12_UsageCounts ==
  \A r \in Slots :
    LET t == task[r]
        messages == t.chat_req.messages
        usage == t.response.usage
        content == t.response.content
    IN  Enveloped(t) =>
          /\ usage.prompt_tokens =
               (IF HasUser(messages) THEN Len(LastUserContent(messages)) ELSE 0)
          /\ content.t = "str" => usage.completion_tokens = Len(content.s)
          /\ content.t = "list" => usage.completion_tokens = Len(content.items)
          /\ usage.total_tokens = usage.prompt_tokens + usage.completion_tokens

\* A conversation of two messages went to the backend whole; the envelope
\* counts the one character of its last user message and the six of the
\* backend's text.
C12_Witness ==
  \E r \in Slots :
    LET t == task[r]
    IN  /\ Enveloped(t)
        /\ t.calls = 1
        /\ t.chat_req.messages =
             <<Msg("user", ContentAt(1)), Msg("system", ContentAt(2))>>
        /\ t.response.usage =
             [prompt_tokens |-> 1, completion_tokens |-> 6, total_tokens |-> 7]

(***************************************************************************)
(* Requests that arrive while a backend call is under way.                 *)
(***************************************************************************)
\* A backend is configured; it answers in time, or the call times out.
\* Requests arrive on every slot, also while a call is under way.
SlowOutcomes == { Value(BodyWithContent(JStr(<<"o", "k">>))), Raise("Timeout") }

InitBackend == Init /\ BACKEND_URL # ""

NextBackend ==
  \/ \E r \in Slots, req \in PlainRequests :
       Arrive(r, GatewayClient, req, GatewayHeader)
  \/ \E r \in Slots, outcome \in SlowOutcomes : BackendReturns(r, outcome)
  \/ \E r \in Slots : Handle(r)

SpecBackend == InitBackend /\ [][NextBackend]_vars

\* C13: while the backend call of one request is under way, the handler of
\* another request that has arrived can be entered, so that its
\* check_rate_limit runs before the call returns.
C13_LimiterFreeDuringBackendCall ==
  \A r, q \in Slots :
    (task[r].pc = "in_flight" /\ task[q].pc = "pending") => ENABLED Start(q)

(***************************************************************************)
(* What a call of check_rate_limit does to the histories.                  *)
(***************************************************************************)
\* The step in which the handler of slot r prunes the history of its client.
Prunes(r) == task[r].pc = "rl_prune" /\ task'[r].pc = "rl_test"

Recorded(c) == { request_history[c][k] : k \in 1..Len(request_history[c]) }

C15_RejectionRecordsNothing ==
  [][\A r \in Slots :
       Decides(r) =>
         LET c == task[r].client_ip
         IN  /\ Len(request_history[c]) = AdmittedWithin(c, task[r].now)
             /\ Recorded(c) \subseteq
                  { admitted[c][k] : k \in 1..Len(admitted[c]) }
             /\ RejectedNow(r) =>
                  /\ request_history' = request_history
                  /\ admitted' = admitted]_vars

\* With the capacity used up at one instant, a call W - 1 seconds later was
\* rejected, and the call one second after that one is admitted.
C15_Witness ==
  \E r \in Slots :
    LET t == task[r]
    IN  /\ t.pc = "rl_append"
        /\ t.after_rejection
        /\ t.gap = 1
        /\ t.now = RATE_LIMIT_WINDOW
        /\ admitted[t.client_ip] = [k \in 1..MAX_REQUESTS |-> 0]

\* C17: the history of a client never holds more than MAX_REQUESTS
\* timestamps, and from a call of check_rate_limit on (until the next one)
\* every timestamp in it lies in the window that ends at that call: none is
\* later than the call, none is RATE_LIMIT_WINDOW seconds old or older.
C17_HistoryBounded ==
  \A c \in Clients :
    /\ Len(request_history[c]) <= MAX_REQUESTS
    /\ \A k \in 1..Len(request_history[c]) :
         LET t == request_history[c][k]
         IN  /\ t <= last_call[c].at
             /\ last_call[c].at - t < RATE_LIMIT_WINDOW

\* A full history whose oldest timestamp is W - 1 seconds older than the
\* call that filled it.
C17_Witness ==
  \E c \in Clients :
    /\ Len(request_history[c]) = MAX_REQUESTS
    /\ request_history[c][1] = last_call[c].at - (RATE_LIMIT_WINDOW - 1)
    /\ request_history[c][MAX_REQUESTS] = last_call[c].at

(***************************************************************************)
(* Streams side by side.                                                   *)
(***************************************************************************)
\* Streamed requests on every slot: two kinds of them, which differ in
\* their X-Request-ID and in their last user message; no backend.
StreamCalls ==
  { [req |-> [messages |-> <<Msg("user", ContentAt(1))>>, stream |-> TRUE],
     hdr |-> HeaderOf(<<"r", "1">>)],
    [req |-> [messages |-> <<Msg("system", ContentAt(1)),
                             Msg("user", ContentAt(2))>>,
              stream |-> TRUE],
     hdr |-> HeaderOf(<<"r", "2">>)] }

InitStreams == Init /\ BACKEND_URL = ""

NextStreams ==
  \/ \E r \in Slots, call \in StreamCalls :
       Arrive(r, GatewayClient, call.req, call.hdr)
  \/ \E r \in Slots : Handle(r)
  \/ \E r \in Slots :
       \/ StreamFirst(r)
       \/ StreamSleep(r)
       \/ StreamNext(r)
       \/ StreamSentinel(r)
       \/ StreamClose(r)

SpecStreams == InitStreams /\ [][NextStreams]_vars

\* The generator of slot r runs from one suspension to the next, or ends.
Resumes(r) == task[r].pc \in SuspendedPcs /\ task'[r] # task[r]

\* The whole stream of the request of slot r, from the request alone.
OwnStream(t) ==
  ExpectedStream(HeaderId(t.x_request_id),
                 ECHO_PREFIX \o LastUserContent(t.chat_req.messages))

\* C16: when the generator of one request runs, between two of its
\* suspensions, what it has sent grows by at most one event and is a
\* beginning of the stream of its own request (its id, its tokens, in
\* order); the step touches neither another request nor the histories.
C16_StreamsIndependent ==
  [][\A r \in Slots :
       Resumes(r) =>
         /\ \A q \in Slots \ {r} : task'[q] = task[q]
         /\ request_history' = request_history
         /\ LET sent == task'[r].emitted
            IN  /\ Len(sent) \in {Len(task[r].emitted), Len(task[r].emitted) + 1}
                /\ Len(sent) <= Len(OwnStream(task[r]))
                /\ sent = SubSeq(OwnStream(task[r]), 1, Len(sent))]_vars

\* Two streams under way at once, under different ids: the later one is
\* ahead of the earlier one.
C16_Witness ==
  /\ MaxSlots >= 2
  /\ task[1].pc = "at_sleep" /\ task[2].pc = "at_sleep"
  /\ task[1].req_id # task[2].req_id
  /\ Len(task[1].emitted) = 1
  /\ Len(task[2].emitted) = 2

(***************************************************************************)
(* Requests without a user message.                                        *)
(***************************************************************************)
\* One request after another from one client, none with a user message,
\* the clock advancing in between; with a backend or without.
UserlessRequests ==
  { [messages |-> <<Msg("system", ContentAt(1))>>, stream |-> s] :
      s \in BOOLEAN }

NextUserless ==
  \/ \E d \in TickSteps : Tick(d)
  \/ \E req \in UserlessRequests : Arrive(1, GatewayClient, req, GatewayHeader)
  \/ Start(1)
  \/ RlPrune(1)
  \/ RlTest(1)
  \/ RlAppend(1)
  \/ ResolveId(1)
  \/ Select(1)

SpecUserless == Init /\ [][NextUserless]_vars

\* The handler of slot r finds no user message in this step.
FindsNoUser(r) ==
  /\ task[r].pc = "select" /\ task'[r].pc # "select"
  /\ ~HasUser(task[r].chat_req.messages)

\* C18: the request that is refused for want of a user message has been
\* admitted before: its timestamp is in the history of its client when the
\* 400 is raised and stays there; so such requests use up the capacity, and
\* the call that finds MAX_REQUESTS of them in its window is rejected.
C18_InvalidRequestCounts ==
  [][\A r \in Slots :
       LET t == task[r]
           c == t.client_ip
       IN  /\ FindsNoUser(r) =>
                /\ task'[r].response.status = 400
                /\ "admit" \in t.did
                /\ t.now \in Recorded(c)
                /\ request_history' = request_history
           /\ (Decides(r) /\ Len(request_history[c]) >= MAX_REQUESTS) =>
                RejectedNow(r)]_vars

\* Five requests without a user message, each refused with 400, in one
\* window; the sixth request is rejected with 429.
C18_Witness ==
  \E r \in Slots :
    LET t == task[r]
        c == GatewayClient
    IN  /\ t.response.status = 429
        /\ ~HasUser(t.chat_req.messages)
        /\ Len(admitted[c]) = MAX_REQUESTS
        /\ admitted[c][1] < admitted[c][MAX_REQUESTS]
        /\ request_history[c] = admitted[c]

(***************************************************************************)
(* Several clients.                                                        *)
(***************************************************************************)
\* One request after another, from either client, the clock advancing in
\* between; plain requests, no backend.
NextClients ==
  \/ \E d \in TickSteps : ticks < MaxLulls /\ Tick(d)
  \/ \E c \in Clients, req \in PlainRequests :
       Arrive(1, c, req, GatewayHeader)
  \/ Handle(1)

SpecClients == InitLimiter /\ [][NextClients]_vars

\* Slot r executes a statement of check_rate_limit in this step.
ChecksLimit(r) ==
  /\ task[r].pc \in {"rl_prune", "rl_test", "rl_append"}
  /\ task'[r] # task[r]

\* C19: a call of check_rate_limit for one client, whether it admits or
\* rejects, leaves the history of every other client as it was; a history
\* changes only in a call for its own client, and a call is rejected only
\* for MAX_REQUESTS admitted calls of its own client inside its window.
C19_ClientsIsolated ==
  [][/\ \A r \in Slots :
          ChecksLimit(r) =>
            \A c \in Clients \ {task[r].client_ip} :
              request_history'[c] = request_history[c]
     /\ \A c \in Clients :
          request_history'[c] # request_history[c] =>
            \E r \in Slots : ChecksLimit(r) /\ task[r].client_ip = c
     /\ \A r \in Slots :
          (Decides(r) /\ RejectedNow(r)) =>
            AdmittedWithin(task[r].client_ip, task[r].now) >= MAX_REQUESTS]_vars

\* One client has used up its capacity and has been rejected; a request of
\* the other client, its first, at the same instant, is admitted.
C19_Witness ==
  \E r \in Slots :
    LET t == task[r]
    IN  /\ t.pc = "rl_append"
        /\ admitted[t.client_ip] = <<>>
        /\ \E c \in Clients \ {t.client_ip} :
             /\ last_call[c].rejected
             /\ last_call[c].at = t.now
             /\ Len(request_history[c]) = MAX_REQUESTS

(***************************************************************************)
(* The stream of a reply without tokens.                                   *)
(***************************************************************************)
\* The chunk that ends a stream for request id `id`.
StopChunk(id) ==
  [kind |-> "chunk", id |-> id, index |-> 0, delta |-> JObj(<<>>),
   finish_reason |-> "stop"]

\* C20: over a content without a token (the backend's text is empty or
\* all whitespace) the stream has no chunk with a role or a content: it
\* is the chunk with the empty delta and finish_reason "stop", then [DONE],
\* and nothing else.
C20_EmptyReplyStream ==
  \A r \in Slots :
    LET t == task[r]
        whole == <<StopChunk(t.req_id), DoneSentinel>>
    IN  (Streams(t) /\ TokenCount(t.reply_content.s) = 0) =>
          /\ Len(t.emitted) <= 2
          /\ t.emitted = SubSeq(whole, 1, Len(t.emitted))
          /\ t.pc = "stream_start" => t.emitted = <<>>
          /\ t.pc = "at_final" => t.emitted = <<StopChunk(t.req_id)>>
          /\ t.pc \in {"at_sentinel", "closed"} => t.emitted = whole
          /\ t.pc \notin {"at_yield", "at_sleep"}

\* The backend answered with one space; the stream over it has ended after
\* its two events.
C20_Witness ==
  \E r \in Slots :
    LET t == task[r]
    IN  /\ Streams(t)
        /\ t.pc = "closed"
        /\ t.calls = 1
        /\ t.reply_content = JStr(<<" ">>)
        /\ t.emitted = <<StopChunk(t.req_id), DoneSentinel>>
====
